---- MODULE Spec2Model ----
(***************************************************************************)
(* Model of src/server.py (csv-analyzer tool server): the tools            *)
(* categorize_by_product and analyze_csv, which read delimited files       *)
(* through pandas, and the file system they read and write.                *)
(*                                                                         *)
(* Texts are sequences of one-character strings, so that str.lower,        *)
(* str.strip, str.split and the substring test `in` are computed.          *)
(* A cell is a record [k, s, n]: k = "null" (pandas NaN), "text" (s is the *)
(* text) or "num" (n is the integer).                                      *)
(***************************************************************************)
EXTENDS Integers, Sequences, FiniteSets, TLC

VARIABLES fs, pre, call, resp, frame, mapping, scores

vars == <<fs, pre, call, resp, frame, mapping, scores>>

----------------------------------------------------------------------------
(* Bounds of the model *)

\* most data rows of a generated queries table
MaxRows == 2
\* most data rows of a generated categories table
MaxCatRows == 3
\* most data rows of a generated numeric table
MaxNumRows == 5
\* most rows a drawn merge may write
MaxMerged == 2

(* Program constants *)

\* len(keyword) >= 8 earns the length bonus
LongKeyword == 8
\* value_counts().head(10)
TopN == 10

----------------------------------------------------------------------------
(* Texts *)

\* the upper-case letters of the alphabet in use, and their lower-case forms
UpperToLower ==
    [c \in {"A", "B", "I", "N", "P"} |->
        CASE c = "A" -> "a" [] c = "B" -> "b" [] c = "I" -> "i"
          [] c = "N" -> "n" [] c = "P" -> "p"]

\* str.lower()
Lower(s) ==
    [i \in 1..Len(s) |-> IF s[i] \in DOMAIN UpperToLower THEN UpperToLower[s[i]] ELSE s[i]]

RECURSIVE LStrip(_)
LStrip(s) == IF s # <<>> /\ Head(s) = " " THEN LStrip(Tail(s)) ELSE s

RECURSIVE RStrip(_)
RStrip(s) == IF s # <<>> /\ s[Len(s)] = " " THEN RStrip(SubSeq(s, 1, Len(s) - 1)) ELSE s

\* str.strip()
Strip(s) == RStrip(LStrip(s))

\* str.split(sep): the pieces between separators, empty pieces kept
RECURSIVE SplitFrom(_, _, _)
SplitFrom(s, sep, cur) ==
    IF s = <<>> THEN <<cur>>
    ELSE IF Head(s) = sep THEN <<cur>> \o SplitFrom(Tail(s), sep, <<>>)
    ELSE SplitFrom(Tail(s), sep, Append(cur, Head(s)))

Split(s, sep) == SplitFrom(s, sep, <<>>)

\* the Python test `k in q` on two strings
IsSubstring(k, q) ==
    \E i \in 0..(Len(q) - Len(k)) : SubSeq(q, i + 1, i + Len(k)) = k

----------------------------------------------------------------------------
(* Cells, files and pandas.read_csv / DataFrame.to_csv *)

NullCell == [k |-> "null", s |-> <<>>, n |-> 0]
TextCell(s) == [k |-> "text", s |-> s, n |-> 0]
NumCell(n) == [k |-> "num", s |-> <<>>, n |-> n]

IsNa(c) == c.k = "null"

\* the texts pandas.read_csv reads as NaN (those over the alphabet in use)
NaValues == {<<>>, <<"N", "A">>, <<"n", "a", "n">>}

ParseCell(c) == IF c.k = "text" /\ c.s \in NaValues THEN NullCell ELSE c

MissingFile == [kind |-> "missing", header |-> <<>>, rows |-> <<>>]
Directory == [kind |-> "dir", header |-> <<>>, rows |-> <<>>]
CsvFile(header, rows) == [kind |-> "file", header |-> header, rows |-> rows]

\* Path.exists()
Exists(f) == f.kind # "missing"

\* pd.read_csv raises unless the path is a regular file
ReadRaises(f) == f.kind # "file"

\* pd.read_csv: the DataFrame of a file
ReadCsv(f) ==
    [columns |-> f.header,
     rows |-> [i \in 1..Len(f.rows) |->
                  [j \in 1..Len(f.rows[i]) |-> ParseCell(f.rows[i][j])]]]

\* DataFrame.to_csv(index=False): NaN is written as the empty field
WriteCell(c) == IF c.k = "null" THEN TextCell(<<>>) ELSE c

ToCsv(df) ==
    CsvFile(df.columns,
            [i \in 1..Len(df.rows) |->
                [j \in 1..Len(df.rows[i]) |-> WriteCell(df.rows[i][j])]])

HasColumn(df, name) == \E j \in 1..Len(df.columns) : df.columns[j] = name

ColIndex(df, name) == CHOOSE j \in 1..Len(df.columns) : df.columns[j] = name

\* df[name]: the cells of a column
Column(df, name) == [i \in 1..Len(df.rows) |-> df.rows[i][ColIndex(df, name)]]

\* str(value) of a cell: str(nan) is 'nan'
Str(c) == IF c.k = "null" THEN <<"n", "a", "n">> ELSE c.s

\* the Python expression `value or ''`: NaN is truthy, the empty string is not
OrEmpty(c) == IF c.k = "text" /\ c.s = <<>> THEN TextCell(<<>>) ELSE c

----------------------------------------------------------------------------
(* Paths *)

\* a path is its stem, a sequence of name parts, and its suffix
QueriesPath == [stem |-> <<"queries">>, suffix |-> ".csv"]
CategoriesPath == [stem |-> <<"categories">>, suffix |-> ".csv"]

\* queries_path.with_name(f"{stem}_categorized{suffix}")
OutputPath(p) == [stem |-> Append(p.stem, "_categorized"), suffix |-> p.suffix]

Paths == {QueriesPath, CategoriesPath, OutputPath(QueriesPath)}

----------------------------------------------------------------------------
(* categorize_by_product *)

Uncategorized == <<"U", "n", "c", "a", "t", "e", "g", "o", "r", "i", "z", "e", "d">>

EmptyFrame == [columns |-> <<>>, rows |-> <<>>]

\* category_keywords[product_area] = keywords on a dict that keeps insertion order:
\* an existing key keeps its place, a new key goes last
DictSet(d, name, keywords) ==
    IF \E i \in 1..Len(d) : d[i].name = name
    THEN [i \in 1..Len(d) |->
             IF d[i].name = name THEN [name |-> name, keywords |-> keywords] ELSE d[i]]
    ELSE Append(d, [name |-> name, keywords |-> keywords])

\* [kw.strip().lower() for kw in raw_keywords.split(',') if kw.strip()]
KeywordList(raw) ==
    LET pieces == Split(raw, ",")
        kept == SelectSeq(pieces, LAMBDA kw : Strip(kw) # <<>>)
    IN  [i \in 1..Len(kept) |-> Lower(Strip(kept[i]))]

\* one pass of the loop over categories_df.iterrows()
AddCategoryRow(d, areaCell, keywordsCell) ==
    LET product_area == Strip(Str(areaCell))
        raw_keywords == Str(OrEmpty(keywordsCell))
        keywords == KeywordList(raw_keywords)
    IN  IF product_area = <<>> THEN d
        ELSE IF keywords # <<>> THEN DictSet(d, product_area, keywords)
        ELSE d

RECURSIVE BuildFrom(_, _, _)
BuildFrom(df, i, d) ==
    IF i > Len(df.rows) THEN d
    ELSE BuildFrom(df, i + 1,
                   AddCategoryRow(d, df.rows[i][ColIndex(df, "product_area")],
                                     df.rows[i][ColIndex(df, "keywords")]))

\* the category mapping built from the categories table
BuildCategoryKeywords(categories_df) == BuildFrom(categories_df, 1, <<>>)

\* a variant whose length bonus starts above LongKeyword characters
KeywordScoreLongerOnly(keyword, query_lower) ==
    IF keyword = <<>> THEN 0
    ELSE IF IsSubstring(keyword, query_lower)
         THEN 1 + (IF Len(keyword) > LongKeyword THEN 1 ELSE 0)
         ELSE 0

\* what one keyword adds to a category's score
KeywordScore(keyword, query_lower) ==
    IF keyword = <<>> THEN 0
    ELSE IF IsSubstring(keyword, query_lower)
         THEN 1 + (IF Len(keyword) >= LongKeyword THEN 1 ELSE 0)
         ELSE 0

\* the inner loop: score of one category for a lowercased query
RECURSIVE CategoryScore(_, _)
CategoryScore(keywords, query_lower) ==
    IF keywords = <<>> THEN 0
    ELSE KeywordScore(Head(keywords), query_lower) + CategoryScore(Tail(keywords), query_lower)

\* a variant in which an equal score also replaces the best so far
BetterOrEqual(score, best_score) == score >= best_score

\* if score > best_score: best_score = score; best_category = category
Better(score, best_score) == score > best_score

\* the outer loop over category_keywords.items(), from position i on
RECURSIVE BestFrom(_, _, _, _)
BestFrom(d, query_lower, i, best) ==
    IF i > Len(d) THEN best
    ELSE LET score == CategoryScore(d[i].keywords, query_lower)
         IN  BestFrom(d, query_lower, i + 1,
                      IF Better(score, best.score)
                      THEN [category |-> d[i].name, score |-> score]
                      ELSE best)

\* a variant without the pd.isna test: NaN goes through str() like any value
CategorizeQueryUnguarded(query_text, d) ==
    BestFrom(d, Lower(Str(query_text)), 1,
             [category |-> Uncategorized, score |-> 0]).category

\* categorize_query(query_text)
CategorizeQuery(query_text, d) ==
    IF IsNa(query_text) THEN Uncategorized
    ELSE BestFrom(d, Lower(Str(query_text)), 1,
                  [category |-> Uncategorized, score |-> 0]).category

\* a variant that appends the column whatever the table holds
SetColumnAppending(df, name, values) ==
    [columns |-> Append(df.columns, name),
     rows |-> [i \in 1..Len(df.rows) |-> Append(df.rows[i], values[i])]]

\* queries_df['product_category'] = labels: an existing column is replaced in
\* place, a new one is appended
SetColumn(df, name, values) ==
    IF HasColumn(df, name)
    THEN [df EXCEPT !.rows =
             [i \in 1..Len(df.rows) |->
                 [df.rows[i] EXCEPT ![ColIndex(df, name)] = values[i]]]]
    ELSE [columns |-> Append(df.columns, name),
          rows |-> [i \in 1..Len(df.rows) |-> Append(df.rows[i], values[i])]]

\* (column == label).sum() and (column != label).sum()
CountEq(cells, label) == Cardinality({i \in 1..Len(cells) : cells[i].s = label})
CountNe(cells, label) == Cardinality({i \in 1..Len(cells) : cells[i].s # label})

\* value_counts(): label -> number of rows bearing it
ValueCounts(cells) ==
    [l \in {cells[i].s : i \in 1..Len(cells)} |-> CountEq(cells, l)]

\* .head(n) of a value_counts(): n labels of greatest count
HeadCounts(vc, n) ==
    IF Cardinality(DOMAIN vc) <= n THEN vc
    ELSE LET top == CHOOSE S \in SUBSET (DOMAIN vc) :
                       /\ Cardinality(S) = n
                       /\ \A a \in S, b \in (DOMAIN vc) \ S : vc[a] >= vc[b]
         IN  [l \in top |-> vc[l]]

NoStats ==
    [total_queries |-> 0, categorized_queries |-> 0, uncategorized_queries |-> 0,
     category_distribution |-> <<>>, top_categories |-> <<>>]

\* a variant whose categorized count counts the categories, not the queries
StatisticsCountingCategories(df) ==
    LET labels == Column(df, "product_category")
        category_counts == ValueCounts(labels)
    IN  [total_queries |-> Len(df.rows),
         categorized_queries |-> Cardinality((DOMAIN category_counts) \ {Uncategorized}),
         uncategorized_queries |-> CountEq(labels, Uncategorized),
         category_distribution |-> category_counts,
         top_categories |-> HeadCounts(category_counts, TopN)]

\* the statistics of a labelled queries table
Statistics(df) ==
    LET labels == Column(df, "product_category")
        category_counts == ValueCounts(labels)
    IN  [total_queries |-> Len(df.rows),
         categorized_queries |-> CountNe(labels, Uncategorized),
         uncategorized_queries |-> CountEq(labels, Uncategorized),
         category_distribution |-> category_counts,
         top_categories |-> HeadCounts(category_counts, TopN)]

\* an {error: ...} response with the keys it carries
ErrorResponse(tool, message, keys) ==
    [tool |-> tool, status |-> "error", error |-> message, keys |-> keys,
     statistics |-> NoStats, analysis |-> <<>>]

\* a variant without the except clause: the exception leaves the tool
ExceptionPropagates(tool, keys) ==
    [ErrorResponse(tool, "exception", {}) EXCEPT !.status = "raised"]

\* the response of the except clause: str(e) and the arguments
ExceptionResponse(tool, keys) == ErrorResponse(tool, "exception", keys)

NoResponse ==
    [tool |-> "none", status |-> "none", error |-> "", keys |-> {},
     statistics |-> NoStats, analysis |-> <<>>]

Proceed == [NoResponse EXCEPT !.status = "ok"]

\* if not category_keywords
MappingIsEmpty(d) == d = <<>>

\* a variant that looks for the categories file before the queries file
InputErrorCategoriesFirst(qf, cf) ==
    IF ~Exists(cf)
    THEN ErrorResponse("categorize", "Categories file not found", {"error"})
    ELSE IF ~Exists(qf)
    THEN ErrorResponse("categorize", "Queries file not found", {"error"})
    ELSE IF ReadRaises(qf) \/ ReadRaises(cf)
    THEN ExceptionResponse("categorize", {"error", "filepath", "categories_filepath"})
    ELSE IF ~HasColumn(ReadCsv(qf), "query")
    THEN ErrorResponse("categorize", "CSV file must contain a \"query\" column", {"error"})
    ELSE IF ~(HasColumn(ReadCsv(cf), "product_area") /\ HasColumn(ReadCsv(cf), "keywords"))
    THEN ErrorResponse("categorize",
                       "Categories CSV must contain columns: product_area, keywords",
                       {"error", "found_columns"})
    ELSE IF MappingIsEmpty(BuildCategoryKeywords(ReadCsv(cf)))
    THEN ErrorResponse("categorize", "No keywords found in categories CSV",
                       {"error", "categories_filepath"})
    ELSE Proceed

\* the checks made before any row is scored, in the order of the code
InputError(qf, cf) ==
    IF ~Exists(qf)
    THEN ErrorResponse("categorize", "Queries file not found", {"error"})
    ELSE IF ~Exists(cf)
    THEN ErrorResponse("categorize", "Categories file not found", {"error"})
    ELSE IF ReadRaises(qf) \/ ReadRaises(cf)
    THEN ExceptionResponse("categorize", {"error", "filepath", "categories_filepath"})
    ELSE IF ~HasColumn(ReadCsv(qf), "query")
    THEN ErrorResponse("categorize", "CSV file must contain a \"query\" column", {"error"})
    ELSE IF ~(HasColumn(ReadCsv(cf), "product_area") /\ HasColumn(ReadCsv(cf), "keywords"))
    THEN ErrorResponse("categorize",
                       "Categories CSV must contain columns: product_area, keywords",
                       {"error", "found_columns"})
    ELSE IF MappingIsEmpty(BuildCategoryKeywords(ReadCsv(cf)))
    THEN ErrorResponse("categorize", "No keywords found in categories CSV",
                       {"error", "categories_filepath"})
    ELSE Proceed

\* queries_df['query'].apply(categorize_query)
Labels(queries_df, d) ==
    LET queries == Column(queries_df, "query")
    IN  [i \in 1..Len(queries) |-> TextCell(CategorizeQuery(queries[i], d))]

\* the scores categorize_query computes, row by row and category by category; a
\* null query is labelled before any score is computed
ScoreTable(queries_df, d) ==
    LET queries == Column(queries_df, "query")
    IN  [i \in 1..Len(queries) |->
            IF IsNa(queries[i]) THEN <<>>
            ELSE [k \in 1..Len(d) |-> CategoryScore(d[k].keywords, Lower(Str(queries[i])))]]

\* the handler up to and including the scoring of every row: the response so far,
\* queries_df and category_keywords as they stand in memory
CategorizeInMemory(fsys, filepath, categories_filepath) ==
    LET qf == fsys[filepath]
        cf == fsys[categories_filepath]
        err == InputError(qf, cf)
        loaded == Exists(qf) /\ Exists(cf) /\ ~ReadRaises(qf) /\ ~ReadRaises(cf)
        checked == /\ loaded
                   /\ HasColumn(ReadCsv(qf), "query")
                   /\ HasColumn(ReadCsv(cf), "product_area")
                   /\ HasColumn(ReadCsv(cf), "keywords")
        d == IF checked THEN BuildCategoryKeywords(ReadCsv(cf)) ELSE <<>>
    IN  [resp |-> err,
         mapping |-> d,
         scores |-> IF err.status = "ok" THEN ScoreTable(ReadCsv(qf), d) ELSE <<>>,
         frame |-> IF err.status = "ok"
                   THEN SetColumn(ReadCsv(qf), "product_category", Labels(ReadCsv(qf), d))
                   ELSE IF Exists(qf) /\ Exists(cf) /\ ~ReadRaises(qf) THEN ReadCsv(qf)
                   ELSE EmptyFrame]

\* DataFrame.to_csv raises when the path cannot be opened for writing
WriteRaises(f) == f.kind = "dir"

SuccessResponse(stats) ==
    [tool |-> "categorize", status |-> "success", error |-> "",
     keys |-> {"status", "filepath", "output_filepath", "categories_filepath", "statistics"},
     statistics |-> stats, analysis |-> <<>>]

\* a variant that writes the table it holds whatever the checks said
CategorizeByProductWriteAlways(fsys, filepath, categories_filepath) ==
    LET m == CategorizeInMemory(fsys, filepath, categories_filepath)
        output_path == OutputPath(filepath)
    IN  IF m.frame # EmptyFrame /\ ~WriteRaises(fsys[output_path])
        THEN [fs |-> [fsys EXCEPT ![output_path] = ToCsv(m.frame)],
              resp |-> IF m.resp.status = "ok"
                       THEN SuccessResponse(Statistics(m.frame)) ELSE m.resp,
              frame |-> m.frame, mapping |-> m.mapping, scores |-> m.scores]
        ELSE [fs |-> fsys,
              resp |-> IF m.resp.status = "ok"
                       THEN ExceptionResponse("categorize",
                                {"error", "filepath", "categories_filepath"})
                       ELSE m.resp,
              frame |-> m.frame, mapping |-> m.mapping, scores |-> m.scores]

\* categorize_by_product(filepath, categories_filepath): the files afterwards, the
\* response, and queries_df and category_keywords as they stand at the return
CategorizeByProduct(fsys, filepath, categories_filepath) ==
    LET m == CategorizeInMemory(fsys, filepath, categories_filepath)
        output_path == OutputPath(filepath)
    IN  IF m.resp.status # "ok"
        THEN [fs |-> fsys, resp |-> m.resp, frame |-> m.frame, mapping |-> m.mapping, scores |-> m.scores]
        ELSE IF WriteRaises(fsys[output_path])
        THEN [fs |-> fsys,
              resp |-> ExceptionResponse("categorize",
                                         {"error", "filepath", "categories_filepath"}),
              frame |-> m.frame, mapping |-> m.mapping, scores |-> m.scores]
        ELSE [fs |-> [fsys EXCEPT ![output_path] = ToCsv(m.frame)],
              resp |-> SuccessResponse(Statistics(m.frame)),
              frame |-> m.frame, mapping |-> m.mapping, scores |-> m.scores]

----------------------------------------------------------------------------
(* analyze_csv *)

\* a number num/den, or NaN
Number(num, den) == [nan |-> FALSE, num |-> num, den |-> den]
NaN == [nan |-> TRUE, num |-> 0, den |-> 1]

\* round(x, 2) of the number a/b >= 0, in hundredths
RoundHundredths(a, b) == (200 * a + b) \div (2 * b)

\* round(count / rows * 100, 2) where count is a numpy integer: 0/0 is NaN
NumpyPercentage(count, rows) ==
    IF rows = 0 THEN NaN ELSE Number(RoundHundredths(count * 100, rows), 100)

\* len(outliers) / len(df) on Python integers raises ZeroDivisionError
DivisionRaises(rows) == rows = 0

NonNull(cells) == SelectSeq(cells, LAMBDA c : ~IsNa(c))

RECURSIVE InsertSorted(_, _)
InsertSorted(x, s) ==
    IF s = <<>> THEN <<x>>
    ELSE IF x <= Head(s) THEN <<x>> \o s
    ELSE <<Head(s)>> \o InsertSorted(x, Tail(s))

RECURSIVE SortValues(_)
SortValues(s) == IF s = <<>> THEN <<>> ELSE InsertSorted(Head(s), SortValues(Tail(s)))

\* the non-null values of a numeric column, in ascending order
SortedValues(cells) ==
    LET nn == NonNull(cells) IN SortValues([i \in 1..Len(nn) |-> nn[i].n])

\* Series.quantile(quarters / 4), linear interpolation between order statistics;
\* NaN on a column without values
Quantile(cells, quarters) ==
    LET v == SortedValues(cells)
        h == (Len(v) - 1) * quarters
        lo == h \div 4
        r == h % 4
    IN  IF Len(v) = 0 THEN NaN
        ELSE IF r = 0 THEN Number(4 * v[lo + 1], 4)
        ELSE Number(4 * v[lo + 1] + r * (v[lo + 2] - v[lo + 1]), 4)

\* the values below Q1 - 1.5 * IQR or above Q3 + 1.5 * IQR; a comparison with NaN
\* is false
OutlierCount(cells) ==
    LET Q1 == Quantile(cells, 1)
        Q3 == Quantile(cells, 3)
        IQR4 == Q3.num - Q1.num
    IN  IF Q1.nan \/ Q3.nan THEN 0
        ELSE Cardinality({i \in 1..Len(cells) :
                 /\ ~IsNa(cells[i])
                 /\ \/ 8 * cells[i].n < 2 * Q1.num - 3 * IQR4
                    \/ 8 * cells[i].n > 2 * Q3.num + 3 * IQR4})

\* a variant whose percentage is taken over the non-null values
OutliersOverNonNull(cells) ==
    [count |-> OutlierCount(cells),
     percentage |-> IF DivisionRaises(Len(NonNull(cells))) THEN NaN
                    ELSE Number(RoundHundredths(OutlierCount(cells) * 100,
                                                Len(NonNull(cells))), 100)]

\* col_info['outliers']
Outliers(cells) ==
    [count |-> OutlierCount(cells),
     percentage |-> IF DivisionRaises(Len(cells)) THEN NaN
                    ELSE Number(RoundHundredths(OutlierCount(cells) * 100, Len(cells)), 100)]

\* a variant without the pd.isna test: float(x) whatever x is
OrNoneUnguarded(x) == [absent |-> FALSE, num |-> x.num, den |-> x.den]

\* float(x) if not pd.isna(x) else None
OrNone(x) == [absent |-> x.nan, num |-> x.num, den |-> x.den]

RECURSIVE SumValues(_)
SumValues(s) == IF s = <<>> THEN 0 ELSE Head(s) + SumValues(Tail(s))

\* Series.mean(), median(), std() (sample, NaN under two values; held as its
\* square), min(), max()
Mean(cells) ==
    LET v == SortedValues(cells)
    IN  IF Len(v) = 0 THEN NaN ELSE Number(SumValues(v), Len(v))
Median(cells) ==
    LET v == SortedValues(cells)
        n == Len(v)
    IN  IF n = 0 THEN NaN
        ELSE IF n % 2 = 1 THEN Number(2 * v[(n + 1) \div 2], 2)
        ELSE Number(v[n \div 2] + v[n \div 2 + 1], 2)
StdSquared(cells) ==
    LET v == SortedValues(cells)
        n == Len(v)
    IN  IF n < 2 THEN NaN
        ELSE Number(n * SumValues([i \in 1..n |-> v[i] * v[i]]) - SumValues(v) * SumValues(v),
                    n * (n - 1))
Min(cells) ==
    LET v == SortedValues(cells) IN IF Len(v) = 0 THEN NaN ELSE Number(v[1], 1)
Max(cells) ==
    LET v == SortedValues(cells) IN IF Len(v) = 0 THEN NaN ELSE Number(v[Len(v)], 1)

\* col_info['statistics']
NumericStatistics(cells) ==
    [mean |-> OrNone(Mean(cells)), median |-> OrNone(Median(cells)),
     std |-> OrNone(StdSquared(cells)), min |-> OrNone(Min(cells)),
     max |-> OrNone(Max(cells)), q25 |-> OrNone(Quantile(cells, 1)),
     q75 |-> OrNone(Quantile(cells, 3))]

\* the dtype read_csv infers: object for a table without rows or a column with a
\* text, float64 for numbers with NaN (or NaN alone), int64 for numbers alone
Dtype(cells) ==
    IF Len(cells) = 0 THEN "object"
    ELSE IF \E i \in 1..Len(cells) : cells[i].k = "text" THEN "object"
    ELSE IF \E i \in 1..Len(cells) : cells[i].k = "null" THEN "float64"
    ELSE "int64"

\* pd.api.types.is_numeric_dtype
IsNumericDtype(dtype) == dtype \in {"int64", "float64"}

NullCount(cells) == Cardinality({i \in 1..Len(cells) : IsNa(cells[i])})

\* one pass of the loop over df.columns: col_info, and whether the pass raised
ColumnInfo(cells) ==
    [dtype |-> Dtype(cells),
     non_null_count |-> Len(cells) - NullCount(cells),
     null_count |-> NullCount(cells),
     null_percentage |-> NumpyPercentage(NullCount(cells), Len(cells)),
     numeric |-> IsNumericDtype(Dtype(cells)),
     statistics |-> IF IsNumericDtype(Dtype(cells)) THEN NumericStatistics(cells) ELSE <<>>,
     outliers |-> IF IsNumericDtype(Dtype(cells)) THEN Outliers(cells)
                  ELSE [count |-> 0, percentage |-> Number(0, 100)],
     unique_count |-> IF IsNumericDtype(Dtype(cells)) THEN 0
                      ELSE Cardinality(DOMAIN ValueCounts(NonNull(cells))),
     top_values |-> IF IsNumericDtype(Dtype(cells)) THEN <<>>
                    ELSE HeadCounts(ValueCounts(NonNull(cells)), TopN),
     raised |-> IsNumericDtype(Dtype(cells)) /\ DivisionRaises(Len(cells))]

\* a variant that marks every row that has an equal, the first one too
DuplicateRowsKeepNone(df) ==
    Cardinality({i \in 1..Len(df.rows) :
                    \E j \in 1..Len(df.rows) : j # i /\ df.rows[j] = df.rows[i]})

\* int(df.duplicated().sum()): the rows equal to an earlier row
DuplicateRows(df) ==
    Cardinality({i \in 1..Len(df.rows) : \E j \in 1..(i - 1) : df.rows[j] = df.rows[i]})

\* the profile of a table
Analysis(df) ==
    [shape |-> [rows |-> Len(df.rows), columns |-> Len(df.columns)],
     columns |-> [j \in 1..Len(df.columns) |->
                     ColumnInfo([i \in 1..Len(df.rows) |-> df.rows[i][j]])],
     missing_values |-> [j \in 1..Len(df.columns) |->
                            NullCount([i \in 1..Len(df.rows) |-> df.rows[i][j]])],
     duplicate_rows |-> DuplicateRows(df)]

ProfileResponse(analysis) ==
    [tool |-> "analyze", status |-> "profile", error |-> "",
     keys |-> {"filepath", "shape", "columns", "missing_values", "duplicate_rows"},
     statistics |-> NoStats, analysis |-> analysis]

\* analyze_csv(filepath): the response
AnalyzeCsv(fsys, filepath) ==
    IF ~Exists(fsys[filepath])
    THEN ErrorResponse("analyze", "File not found", {"error"})
    ELSE IF ReadRaises(fsys[filepath])
    THEN ExceptionResponse("analyze", {"error", "filepath"})
    ELSE LET analysis == Analysis(ReadCsv(fsys[filepath]))
         IN  IF \E j \in 1..Len(analysis.columns) : analysis.columns[j].raised
             THEN ExceptionResponse("analyze", {"error", "filepath"})
             ELSE ProfileResponse(analysis)

----------------------------------------------------------------------------
(* merge_csvs, with on and how left at their defaults (None, 'inner') *)

\* the labels both tables carry, in the order of the first table: the merge keys
CommonColumns(df1, df2) == SelectSeq(df1.columns, LAMBDA c : HasColumn(df2, c))

\* pd.merge refuses a key that is text on one side and numbers on the other,
\* both sides having rows
KeyDtypesClash(df1, df2) ==
    /\ Len(df1.rows) > 0
    /\ Len(df2.rows) > 0
    /\ \E k \in 1..Len(CommonColumns(df1, df2)) :
          LET c == CommonColumns(df1, df2)[k]
          IN  IsNumericDtype(Dtype(Column(df1, c))) # IsNumericDtype(Dtype(Column(df2, c)))

\* pd.merge raises MergeError without a common column, ValueError on a clash
MergeRaises(df1, df2) == CommonColumns(df1, df2) = <<>> \/ KeyDtypesClash(df1, df2)

\* two rows join when they agree on every key; NaN joins NaN
KeysAgree(df1, df2, i, j) ==
    \A k \in 1..Len(CommonColumns(df1, df2)) :
        LET c == CommonColumns(df1, df2)[k]
        IN  df1.rows[i][ColIndex(df1, c)] = df2.rows[j][ColIndex(df2, c)]

\* the positions of the second table's columns that are not keys
RestOf(df1, df2) ==
    SelectSeq([j \in 1..Len(df2.columns) |-> j], LAMBDA j : ~HasColumn(df1, df2.columns[j]))

JoinedRow(df1, df2, i, j) ==
    df1.rows[i] \o [k \in 1..Len(RestOf(df1, df2)) |-> df2.rows[j][RestOf(df1, df2)[k]]]

\* the joined rows from the pair (i, j) on, in the order of the first table
RECURSIVE JoinFrom(_, _, _, _)
JoinFrom(df1, df2, i, j) ==
    IF i > Len(df1.rows) THEN <<>>
    ELSE IF j > Len(df2.rows) THEN JoinFrom(df1, df2, i + 1, 1)
    ELSE (IF KeysAgree(df1, df2, i, j) THEN <<JoinedRow(df1, df2, i, j)>> ELSE <<>>)
         \o JoinFrom(df1, df2, i, j + 1)

\* pd.merge(df1, df2, how='inner')
PdMerge(df1, df2) ==
    [columns |-> df1.columns \o [k \in 1..Len(RestOf(df1, df2)) |-> df2.columns[RestOf(df1, df2)[k]]],
     rows |-> JoinFrom(df1, df2, 1, 1)]

MergeResponse ==
    [tool |-> "merge", status |-> "success", error |-> "",
     keys |-> {"status", "file1_rows", "file2_rows", "merged_rows", "output_path",
               "merge_type", "merge_on"},
     statistics |-> NoStats, analysis |-> <<>>]

\* merge_csvs(filepath1, filepath2, output_path): the files afterwards, the
\* response and merged_df
MergeCsvs(fsys, filepath1, filepath2, output_path) ==
    IF ~Exists(fsys[filepath1]) \/ ~Exists(fsys[filepath2])
    THEN [fs |-> fsys, resp |-> ErrorResponse("merge", "File not found", {"error"}),
          frame |-> EmptyFrame]
    ELSE IF ReadRaises(fsys[filepath1]) \/ ReadRaises(fsys[filepath2])
    THEN [fs |-> fsys, resp |-> ExceptionResponse("merge", {"error"}), frame |-> EmptyFrame]
    ELSE LET df1 == ReadCsv(fsys[filepath1])
             df2 == ReadCsv(fsys[filepath2])
         IN  IF MergeRaises(df1, df2)
             THEN [fs |-> fsys, resp |-> ExceptionResponse("merge", {"error"}),
                   frame |-> EmptyFrame]
             ELSE IF WriteRaises(fsys[output_path])
             THEN [fs |-> fsys, resp |-> ExceptionResponse("merge", {"error"}),
                   frame |-> PdMerge(df1, df2)]
             ELSE [fs |-> [fsys EXCEPT ![output_path] = ToCsv(PdMerge(df1, df2))],
                   resp |-> MergeResponse,
                   frame |-> PdMerge(df1, df2)]

----------------------------------------------------------------------------
(* The inputs drawn *)

SeqsUpTo(S, n) == UNION {[1..k -> S] : k \in 0..n}

Nan == <<"n", "a", "n">>

\* the query cells of a queries file: empty, "Pay Invoices", "banana", "hello", "NA"
QueryCells ==
    { TextCell(<<>>),
      TextCell(<<"P", "a", "y", " ", "I", "n", "v", "o", "i", "c", "e", "s">>),
      TextCell(<<"b", "a", "n", "a", "n", "a">>),
      TextCell(<<"h", "e", "l", "l", "o">>),
      TextCell(<<"N", "A">>) }

\* the rows <<product_area, keywords>> of a categories file
CategoryRows ==
    { <<TextCell(<<"A">>), TextCell(<<"p", "a", "y">>)>>,
      <<TextCell(<<"B">>), TextCell(<<"P", "a", "y", " ", ",", " ">>)>>,
      <<TextCell(<<"A">>), TextCell(<<" ", ",", " ">>)>>,
      <<TextCell(<<" ", "A">>),
        TextCell(<<"i", "n", "v", "o", "i", "c", "e", "s", ",", "i", "n", "v", "o", "i", "c", "e">>)>>,
      <<TextCell(<<>>), TextCell(<<"p", "a", "y">>)>>,
      <<TextCell(<<"B">>), TextCell(<<>>)>> }

CategoriesHeader == <<"product_area", "keywords">>

CategoriesFiles == {CsvFile(CategoriesHeader, rows) : rows \in SeqsUpTo(CategoryRows, MaxCatRows)}

\* three categories files held fixed while the queries vary
PlainCategories ==
    CsvFile(CategoriesHeader,
            << <<TextCell(<<"A">>), TextCell(<<"p", "a", "y">>)>>,
               <<TextCell(<<"B">>), TextCell(<<"i", "n", "v", "o", "i", "c", "e", "s">>)>> >>)

NanCategories ==
    CsvFile(CategoriesHeader,
            << <<TextCell(<<"B">>), TextCell(<<>>)>>,
               <<TextCell(<<>>), TextCell(<<"p", "a", "y">>)>> >>)

\* no row of it yields a keyword
BlankCategories ==
    CsvFile(CategoriesHeader,
            << <<TextCell(<<"A">>), TextCell(<<" ", ",", " ">>)>>,
               <<TextCell(<<" ">>), TextCell(<<"p", "a", "y">>)>> >>)

\* it lacks the keywords column
ShortCategories == CsvFile(<<"product_area">>, << <<TextCell(<<"A">>)>> >>)

Other == TextCell(<<"o">>)

\* the headers of a queries file; every column but "query" holds the cell Other
QueriesHeaders ==
    { <<"query">>, <<"id", "query">>, <<"query", "product_category">>,
      <<"product_category", "query", "id">> }

QueriesFile(header, cells) ==
    CsvFile(header,
            [i \in 1..Len(cells) |->
                [j \in 1..Len(header) |-> IF header[j] = "query" THEN cells[i] ELSE Other]])

QueriesFiles ==
    {QueriesFile(h, cells) : h \in QueriesHeaders, cells \in SeqsUpTo(QueryCells, MaxRows)}

\* a table without a "query" column
NoQueryFile == CsvFile(<<"id">>, << <<Other>> >>)

OneQueryFiles == {QueriesFile(<<"query">>, <<c>>) : c \in QueryCells}

Files(q, c, o) ==
    [p \in Paths |->
        IF p = QueriesPath THEN q ELSE IF p = CategoriesPath THEN c ELSE o]

\* every categories file against every one-row queries file
ScoringInputs ==
    {Files(q, c, MissingFile) : q \in OneQueryFiles, c \in CategoriesFiles}

\* every queries file against the fixed categories files
TableInputs ==
    {Files(q, c, MissingFile) : q \in QueriesFiles, c \in {PlainCategories, NanCategories}}

\* missing paths, directories and tables that fail a check, in every combination
FailingInputs ==
    {Files(q, c, o) :
        q \in {MissingFile, Directory, NoQueryFile,
               QueriesFile(<<"query">>, <<TextCell(<<"p", "a", "y">>)>>)},
        c \in {MissingFile, Directory, ShortCategories, BlankCategories, PlainCategories},
        o \in {MissingFile, Directory, PlainCategories}}

NoCall == [tool |-> "none", filepath |-> QueriesPath, categories_filepath |-> QueriesPath]

Init ==
    /\ fs \in ScoringInputs \cup TableInputs \cup FailingInputs
    /\ pre = fs
    /\ call = NoCall
    /\ resp = NoResponse
    /\ frame = EmptyFrame
    /\ mapping = <<>>
    /\ scores = <<>>

\* one invocation of the tool categorize_by_product
Categorize(filepath, categories_filepath) ==
    /\ OutputPath(filepath) \in Paths
    /\ LET r == CategorizeByProduct(fs, filepath, categories_filepath)
       IN  /\ fs' = r.fs
           /\ resp' = r.resp
           /\ frame' = r.frame
           /\ mapping' = r.mapping
           /\ scores' = r.scores
    /\ pre' = fs
    /\ call' = [tool |-> "categorize", filepath |-> filepath,
                categories_filepath |-> categories_filepath]

\* one invocation of the tool analyze_csv
Analyze(filepath) ==
    /\ resp' = AnalyzeCsv(fs, filepath)
    /\ call' = [tool |-> "analyze", filepath |-> filepath, categories_filepath |-> filepath]
    /\ pre' = fs
    /\ frame' = EmptyFrame
    /\ mapping' = <<>>
    /\ scores' = <<>>
    /\ UNCHANGED fs

\* the categorizer, invoked again and again on the files it leaves
Next ==
    \E filepath \in Paths, categories_filepath \in Paths :
        Categorize(filepath, categories_filepath)

Spec == Init /\ [][Next]_vars

\* the cells of a numeric column: empty, 1, 2, 100
NumberCells == {TextCell(<<>>), NumCell(1), NumCell(2), NumCell(100)}

\* the column 1, 2, 3, 4, 100
ExampleFile ==
    CsvFile(<<"value">>,
            <<<<NumCell(1)>>, <<NumCell(2)>>, <<NumCell(3)>>, <<NumCell(4)>>, <<NumCell(100)>>>>)

NumericFiles ==
    {CsvFile(<<"value">>, [i \in 1..Len(cells) |-> <<cells[i]>>]) :
        cells \in SeqsUpTo(NumberCells, MaxNumRows)} \cup {ExampleFile}

\* tables of a text column and a numeric column, whose rows agree in both
\* columns, in one or in none
MixedRows ==
    { <<TextCell(<<"p", "a", "y">>), NumCell(1)>>,
      <<TextCell(<<"p", "a", "y">>), NumCell(2)>>,
      <<TextCell(<<"h", "e", "l", "l", "o">>), NumCell(1)>> }

MixedFiles == {CsvFile(<<"query", "value">>, rows) : rows \in SeqsUpTo(MixedRows, MaxRows)}

\* a table of numbers at the queries path, beside a directory and a missing path;
\* or a table of texts, or a table of two columns (the header alone among them)
ProfileInputs ==
    {Files(q, Directory, MissingFile) :
        q \in NumericFiles \cup OneQueryFiles \cup MixedFiles}

InitProfile ==
    /\ fs \in ProfileInputs
    /\ pre = fs
    /\ call = NoCall
    /\ resp = NoResponse
    /\ frame = EmptyFrame
    /\ mapping = <<>>
    /\ scores = <<>>

\* the profiler, invoked on any path
NextProfile == \E filepath \in Paths : Analyze(filepath)

SpecProfile == InitProfile /\ [][NextProfile]_vars

\* a table whose id column holds a number
NumberedFile == CsvFile(<<"id">>, << <<NumCell(1)>> >>)

\* the files the three tools are run on together: missing paths, directories,
\* tables that share a column, tables that share none and tables whose shared
\* column differs in type
ToolInputs ==
    {Files(q, c, o) :
        q \in {MissingFile, NoQueryFile, NumberedFile,
               QueriesFile(<<"query">>, <<TextCell(<<"p", "a", "y">>)>>)},
        c \in {MissingFile, ShortCategories, BlankCategories, PlainCategories},
        o \in {MissingFile, Directory, NoQueryFile}}

InitTools ==
    /\ fs \in ToolInputs
    /\ pre = fs
    /\ call = NoCall
    /\ resp = NoResponse
    /\ frame = EmptyFrame
    /\ mapping = <<>>
    /\ scores = <<>>

\* one invocation of the tool merge_csvs with on and how left out; a merge
\* that would write more than MaxMerged rows is not drawn
Merge(filepath1, filepath2, output_path) ==
    LET r == MergeCsvs(fs, filepath1, filepath2, output_path)
    IN  /\ Len(r.frame.rows) <= MaxMerged
        /\ fs' = r.fs
        /\ resp' = r.resp
        /\ frame' = r.frame
        /\ mapping' = <<>>
        /\ scores' = <<>>
        /\ pre' = fs
        /\ call' = [tool |-> "merge", filepath |-> filepath1,
                    categories_filepath |-> filepath2]

\* the three tools, invoked in any order on the files they leave
NextTools ==
    \/ \E filepath \in Paths, categories_filepath \in Paths :
          Categorize(filepath, categories_filepath)
    \/ \E filepath \in Paths : Analyze(filepath)
    \/ \E filepath1 \in Paths, filepath2 \in Paths, output_path \in Paths :
          Merge(filepath1, filepath2, output_path)

SpecTools == InitTools /\ [][NextTools]_vars

----------------------------------------------------------------------------
(* The categorizer's claims *)

Categorized == call.tool = "categorize"
Succeeded == Categorized /\ resp.status = "success"

\* the queries table and the categories table the last invocation loaded
QueriesIn == ReadCsv(pre[call.filepath])
CategoriesIn == ReadCsv(pre[call.categories_filepath])
QueryAt(i) == QueriesIn.rows[i][ColIndex(QueriesIn, "query")]
LabelAt(i) == frame.rows[i][ColIndex(frame, "product_category")].s

\* the score as the specification words it: one per matching keyword, one more
\* per matching keyword of 8 characters or more
Matching(keywords, q) == {j \in 1..Len(keywords) : IsSubstring(keywords[j], q)}
SumOfMatches(keywords, q) ==
    Cardinality(Matching(keywords, q))
      + Cardinality({j \in Matching(keywords, q) : Len(keywords[j]) >= 8})

\* C1: for every non-null query and every category definition, the score is the
\* number of keywords that are substrings of the lowercased query plus the number
\* of those that are at least 8 characters long.
C1_ScoreIsSumOfMatches ==
    Succeeded =>
        \A i \in 1..Len(QueriesIn.rows) :
            ~IsNa(QueryAt(i)) =>
                /\ Len(scores[i]) = Len(mapping)
                /\ \A k \in 1..Len(mapping) :
                      scores[i][k] = SumOfMatches(mapping[k].keywords, Lower(QueryAt(i).s))

\* a query that matches a keyword of exactly 8 characters and a shorter one of the
\* same category (score 3), in a mapping that also has a category scoring 0
C1_Witness ==
    /\ Succeeded
    /\ \E i \in 1..Len(scores) : \E k \in 1..Len(scores[i]) :
          /\ scores[i][k] = 3
          /\ \E j \in 1..Len(mapping[k].keywords) : Len(mapping[k].keywords[j]) = 8
          /\ \E m \in 1..Len(scores[i]) : scores[i][m] = 0

MaxScore(i) ==
    CHOOSE v \in {scores[i][k] : k \in 1..Len(scores[i])} :
        \A k \in 1..Len(scores[i]) : scores[i][k] <= v

\* the product_area of a categories row, as the mapping keys it
AreaOf(r) == Strip(Str(CategoriesIn.rows[r][ColIndex(CategoriesIn, "product_area")]))
KeywordsOf(r) ==
    KeywordList(Str(OrEmpty(CategoriesIn.rows[r][ColIndex(CategoriesIn, "keywords")])))

\* the first row of the categories file that names the product_area
FirstAppearance(name) ==
    CHOOSE r \in 1..Len(CategoriesIn.rows) :
        /\ AreaOf(r) = name
        /\ \A q \in 1..(r - 1) : AreaOf(q) # name

\* the first row of the categories file that gives the product_area keywords
FirstDefinition(name) ==
    CHOOSE r \in 1..Len(CategoriesIn.rows) :
        /\ AreaOf(r) = name /\ KeywordsOf(r) # <<>>
        /\ \A q \in 1..(r - 1) : ~(AreaOf(q) = name /\ KeywordsOf(q) # <<>>)

Leaders(i) == {k \in 1..Len(mapping) : scores[i][k] = MaxScore(i)}

NoEmptyCategoryCell ==
    \A r \in 1..Len(CategoriesIn.rows) : \A j \in 1..Len(CategoriesIn.rows[r]) :
        ~IsNa(CategoriesIn.rows[r][j])

\* C2 as stated: the label is the category of greatest score and, among equals,
\* the one whose product_area appears first in the categories file (here for the
\* categories files that have no empty cell).
C2_TieGoesToFirstAppearance ==
    (Succeeded /\ NoEmptyCategoryCell) =>
        \A i \in 1..Len(QueriesIn.rows) :
            (~IsNa(QueryAt(i)) /\ MaxScore(i) > 0) =>
                \E k \in Leaders(i) :
                    /\ LabelAt(i) = mapping[k].name
                    /\ \A m \in Leaders(i) :
                          FirstAppearance(mapping[k].name) <= FirstAppearance(mapping[m].name)

\* C2 amended: the label is the category of greatest score and, among equals, the
\* one that entered the mapping first: the one whose first row with a non-empty
\* keyword list comes first in the categories file.
C2_TieGoesToFirstDefinition ==
    Succeeded =>
        \A i \in 1..Len(QueriesIn.rows) :
            (~IsNa(QueryAt(i)) /\ MaxScore(i) > 0) =>
                \E k \in Leaders(i) :
                    /\ LabelAt(i) = mapping[k].name
                    /\ \A m \in Leaders(i) :
                          FirstDefinition(mapping[k].name) <= FirstDefinition(mapping[m].name)

\* two categories share the greatest positive score, and the one labelled is a
\* product_area whose keyword list a later row has overwritten
C2_Witness ==
    /\ Succeeded
    /\ \E i \in 1..Len(scores) :
          /\ ~IsNa(QueryAt(i))
          /\ MaxScore(i) > 0
          /\ Cardinality(Leaders(i)) >= 2
          /\ \E r \in 1..Len(CategoriesIn.rows) :
                /\ AreaOf(r) = LabelAt(i)
                /\ KeywordsOf(r) # <<>>
                /\ r > FirstDefinition(LabelAt(i))

\* C3: the label is "Uncategorized" when the query is null or every category
\* scores 0 for it, and otherwise the name of a category of greatest score.
C3_UncategorizedIffNoMatch ==
    Succeeded =>
        \A i \in 1..Len(QueriesIn.rows) :
            IF IsNa(QueryAt(i))
               \/ \A k \in 1..Len(mapping) :
                     SumOfMatches(mapping[k].keywords, Lower(QueryAt(i).s)) = 0
            THEN LabelAt(i) = Uncategorized
            ELSE \E k \in 1..Len(mapping) :
                    /\ LabelAt(i) = mapping[k].name
                    /\ \A m \in 1..Len(mapping) :
                          SumOfMatches(mapping[m].keywords, Lower(QueryAt(i).s))
                            <= SumOfMatches(mapping[k].keywords, Lower(QueryAt(i).s))

\* a null query labelled "Uncategorized" although a category has the keyword
\* "nan", beside a query that a category claims
C3_Witness ==
    /\ Succeeded
    /\ \E i \in 1..Len(frame.rows) :
          /\ IsNa(QueryAt(i))
          /\ LabelAt(i) = Uncategorized
          /\ \E k \in 1..Len(mapping) : mapping[k].keywords = <<Nan>>
    /\ \E i \in 1..Len(frame.rows) : LabelAt(i) # Uncategorized

RECURSIVE SumCounts(_, _)
SumCounts(f, S) ==
    IF S = {} THEN 0
    ELSE LET x == CHOOSE y \in S : TRUE IN f[x] + SumCounts(f, S \ {x})

\* C4: after a successful invocation every row bears a non-null label,
\* categorized + uncategorized = total = the number of rows of the queries table,
\* and the counts of the distribution add up to the total.
C4_CountsAddUp ==
    Succeeded =>
        LET st == resp.statistics
            dist == st.category_distribution
        IN  /\ \A i \in 1..Len(frame.rows) :
                  ~IsNa(frame.rows[i][ColIndex(frame, "product_category")])
            /\ st.total_queries = Len(QueriesIn.rows)
            /\ st.categorized_queries + st.uncategorized_queries = st.total_queries
            /\ SumCounts(dist, DOMAIN dist) = st.total_queries

\* a table of two queries that one category claims both
C4_Witness ==
    /\ Succeeded
    /\ resp.statistics.total_queries = 2
    /\ resp.statistics.categorized_queries = 2
    /\ Cardinality(DOMAIN resp.statistics.category_distribution) = 1

\* both tables were loaded and passed the column checks: the mapping was built
MappingBuilt ==
    /\ Categorized
    /\ pre[call.filepath].kind = "file"
    /\ pre[call.categories_filepath].kind = "file"
    /\ HasColumn(QueriesIn, "query")
    /\ HasColumn(CategoriesIn, "product_area")
    /\ HasColumn(CategoriesIn, "keywords")

\* a categories row as the specification reads it: a missing cell is empty
StatedArea(r) ==
    LET c == CategoriesIn.rows[r][ColIndex(CategoriesIn, "product_area")]
    IN  IF IsNa(c) THEN <<>> ELSE Strip(c.s)
StatedKeywords(r) ==
    LET c == CategoriesIn.rows[r][ColIndex(CategoriesIn, "keywords")]
        pieces == IF IsNa(c) THEN <<>> ELSE Split(c.s, ",")
        kept == SelectSeq(pieces, LAMBDA kw : Strip(kw) # <<>>)
    IN  [i \in 1..Len(kept) |-> Lower(Strip(kept[i]))]
StatedKept(r) == StatedArea(r) # <<>> /\ StatedKeywords(r) # <<>>
KeptRows == {r \in 1..Len(CategoriesIn.rows) : StatedKept(r)}
LatestKept(name) ==
    CHOOSE r \in KeptRows :
        /\ StatedArea(r) = name
        /\ \A q \in KeptRows : StatedArea(q) = name => q <= r

\* C5: the mapping holds exactly one definition per non-empty product_area with a
\* non-empty keyword set; rows whose product_area or keywords are empty or missing
\* are dropped; keywords are trimmed and lowercased; the latest row with keywords
\* decides a repeated product_area.
C5_MappingDropsEmptyRows ==
    MappingBuilt =>
        /\ \A i, j \in 1..Len(mapping) : mapping[i].name = mapping[j].name => i = j
        /\ {mapping[i].name : i \in 1..Len(mapping)} = {StatedArea(r) : r \in KeptRows}
        /\ \A i \in 1..Len(mapping) :
              mapping[i].name \in {StatedArea(r) : r \in KeptRows}
                 => mapping[i].keywords = StatedKeywords(LatestKept(mapping[i].name))

QueriesMessage == "Queries file not found"
CategoriesMessage == "Categories file not found"
QueryColumnMessage == "CSV file must contain a \"query\" column"
CategoryColumnsMessage == "Categories CSV must contain columns: product_area, keywords"
NoKeywordsMessage == "No keywords found in categories CSV"

QueriesMissing == pre[call.filepath].kind = "missing"
CategoriesMissing == pre[call.categories_filepath].kind = "missing"
ReadFails == pre[call.filepath].kind = "dir" \/ pre[call.categories_filepath].kind = "dir"
LacksQueryColumn == pre[call.filepath].kind = "file" /\ ~HasColumn(QueriesIn, "query")
LacksCategoryColumns ==
    /\ pre[call.categories_filepath].kind = "file"
    /\ ~(HasColumn(CategoriesIn, "product_area") /\ HasColumn(CategoriesIn, "keywords"))
BuiltMappingEmpty == MappingBuilt /\ mapping = <<>>

Fails(message) == resp.status = "error" /\ resp.error = message

\* C6 as stated: each of the five conditions yields an error response, and the
\* first of them that holds decides the message (here for the invocations whose
\* queries file is read as a table).
C6_FirstOfFiveDecides ==
    (Categorized /\ pre[call.filepath].kind = "file") =>
        /\ QueriesMissing => Fails(QueriesMessage)
        /\ (~QueriesMissing /\ CategoriesMissing) => Fails(CategoriesMessage)
        /\ (~QueriesMissing /\ ~CategoriesMissing /\ LacksQueryColumn)
              => Fails(QueryColumnMessage)
        /\ (~QueriesMissing /\ ~CategoriesMissing /\ ~LacksQueryColumn
               /\ LacksCategoryColumns)
              => Fails(CategoryColumnsMessage)
        /\ (~QueriesMissing /\ ~CategoriesMissing /\ ~LacksQueryColumn
               /\ ~LacksCategoryColumns /\ BuiltMappingEmpty)
              => Fails(NoKeywordsMessage)

\* C6 amended: the same, with one more condition between the second and the third:
\* a file that exists but cannot be read as a table yields the error response of
\* the exception, whatever the later conditions are.
C6_FirstOfSixDecides ==
    Categorized =>
        /\ QueriesMissing => Fails(QueriesMessage)
        /\ (~QueriesMissing /\ CategoriesMissing) => Fails(CategoriesMessage)
        /\ (~QueriesMissing /\ ~CategoriesMissing /\ ReadFails) => Fails("exception")
        /\ (~QueriesMissing /\ ~CategoriesMissing /\ ~ReadFails /\ LacksQueryColumn)
              => Fails(QueryColumnMessage)
        /\ (~QueriesMissing /\ ~CategoriesMissing /\ ~ReadFails /\ ~LacksQueryColumn
               /\ LacksCategoryColumns)
              => Fails(CategoryColumnsMessage)
        /\ (~QueriesMissing /\ ~CategoriesMissing /\ ~ReadFails /\ ~LacksQueryColumn
               /\ ~LacksCategoryColumns /\ BuiltMappingEmpty)
              => Fails(NoKeywordsMessage)

\* both files are missing and the queries file decides the message
C6_Witness ==
    /\ Categorized
    /\ QueriesMissing /\ CategoriesMissing
    /\ Fails(QueriesMessage)

OutputOf(p) == [stem |-> p.stem \o <<"_categorized">>, suffix |-> p.suffix]

\* C7: an invocation that returns an error has changed no file; the output file
\* changes only in a successful invocation, which writes one labelled row per
\* query row.
C7_WriteIsAllOrNothing ==
    Categorized =>
        /\ resp.status = "error" => fs = pre
        /\ fs # pre => resp.status = "success"
        /\ resp.status = "success" =>
              /\ fs[OutputOf(call.filepath)].kind = "file"
              /\ Len(fs[OutputOf(call.filepath)].rows) = Len(QueriesIn.rows)
              /\ \A p \in Paths \ {OutputOf(call.filepath)} : fs[p] = pre[p]

\* an error raised after every row was scored (the output path is a directory),
\* with the labelled table in memory and the files as they were
C7_Witness ==
    /\ Categorized
    /\ resp.status = "error"
    /\ HasColumn(frame, "product_category")
    /\ Len(frame.rows) > 0
    /\ pre[OutputOf(call.filepath)].kind = "dir"
    /\ fs = pre

TableOut == ReadCsv(fs[OutputOf(call.filepath)])

\* C8 as stated: the table written is the queries table plus one appended column
\* "product_category", also when the queries table has such a column already.
C8_OneColumnAppended ==
    Succeeded =>
        /\ TableOut.columns = QueriesIn.columns \o <<"product_category">>
        /\ Len(TableOut.rows) = Len(QueriesIn.rows)
        /\ \A i \in 1..Len(QueriesIn.rows) :
              SubSeq(TableOut.rows[i], 1, Len(QueriesIn.columns)) = QueriesIn.rows[i]

\* C8 amended: when the queries table has no column "product_category", the table
\* written is the queries table plus that one appended column; when it has one,
\* the table written has the same columns, the labels replace the values of that
\* column in place, and every other column is unchanged.
C8_ColumnAppendedOrReplaced ==
    Succeeded =>
        /\ Len(TableOut.rows) = Len(QueriesIn.rows)
        /\ IF HasColumn(QueriesIn, "product_category")
           THEN /\ TableOut.columns = QueriesIn.columns
                /\ \A i \in 1..Len(QueriesIn.rows) : \A j \in 1..Len(QueriesIn.columns) :
                      TableOut.rows[i][j] =
                          IF QueriesIn.columns[j] = "product_category"
                          THEN ParseCell(TextCell(LabelAt(i)))
                          ELSE QueriesIn.rows[i][j]
           ELSE /\ TableOut.columns = QueriesIn.columns \o <<"product_category">>
                /\ \A i \in 1..Len(QueriesIn.rows) :
                      /\ SubSeq(TableOut.rows[i], 1, Len(QueriesIn.columns)) = QueriesIn.rows[i]
                      /\ TableOut.rows[i][Len(TableOut.columns)] =
                            ParseCell(TextCell(LabelAt(i)))

\* a queries table that already has a column "product_category", before other
\* columns, whose old value a label has replaced, and an "NA" query cell
C8_Witness ==
    /\ Succeeded
    /\ HasColumn(QueriesIn, "product_category")
    /\ QueriesIn.columns[Len(QueriesIn.columns)] # "product_category"
    /\ \E i \in 1..Len(QueriesIn.rows) :
          /\ LabelAt(i) # Uncategorized
          /\ TableOut.rows[i][ColIndex(TableOut, "product_category")] # Other
    /\ \E i \in 1..Len(QueriesIn.rows) :
          pre[call.filepath].rows[i][ColIndex(QueriesIn, "query")].s = <<"N", "A">>

----------------------------------------------------------------------------
(* The profiler's claims *)

Profiled == call.tool = "analyze" /\ resp.status = "profile"

TableIn == ReadCsv(pre[call.filepath])
ValuesIn(j) == {i \in 1..Len(TableIn.rows) : ~IsNa(TableIn.rows[i][j])}

\* the k-th smallest of the non-null values of column j
OrderStatistic(j, k) ==
    CHOOSE x \in {TableIn.rows[i][j].n : i \in ValuesIn(j)} :
        /\ Cardinality({i \in ValuesIn(j) : TableIn.rows[i][j].n < x}) < k
        /\ Cardinality({i \in ValuesIn(j) : TableIn.rows[i][j].n <= x}) >= k

\* 100 times the percentile pct of column j under linear interpolation: the rank
\* (n - 1) * pct / 100 falls between two order statistics
Percentile100(j, pct) ==
    LET n == Cardinality(ValuesIn(j))
        rank100 == (n - 1) * pct
        below == rank100 \div 100 + 1
        part == rank100 % 100
    IN  IF part = 0 THEN 100 * OrderStatistic(j, below)
        ELSE 100 * OrderStatistic(j, below)
               + part * (OrderStatistic(j, below + 1) - OrderStatistic(j, below))

\* value < Q1 - 1.5 * IQR or value > Q3 + 1.5 * IQR, all of it times 200
IsOutlier(j, i) ==
    LET Q1 == Percentile100(j, 25)
        Q3 == Percentile100(j, 75)
        IQR == Q3 - Q1
        value == 100 * TableIn.rows[i][j].n
    IN  \/ 2 * value < 2 * Q1 - 3 * IQR
        \/ 2 * value > 2 * Q3 + 3 * IQR

TheExample ==
    <<<<NumCell(1)>>, <<NumCell(2)>>, <<NumCell(3)>>, <<NumCell(4)>>, <<NumCell(100)>>>>

\* C9: for every numeric column the outlier count is the number of non-null
\* values outside the fences Q1 - 1.5 IQR and Q3 + 1.5 IQR, and the percentage is
\* the count over the number of rows, times 100, to two decimals; the column
\* [1,2,3,4,100] has count 1 and percentage 20.0.
C9_OutliersByIqrFence ==
    Profiled =>
        \A j \in 1..Len(TableIn.columns) :
            resp.analysis.columns[j].numeric =>
                LET o == resp.analysis.columns[j].outliers
                    expected == Cardinality({i \in ValuesIn(j) : IsOutlier(j, i)})
                IN  /\ o.count = expected
                    /\ ~o.percentage.nan
                    /\ o.percentage.den = 100
                    \* |percentage - 100 * count / rows| <= 0.005
                    /\ 2 * o.percentage.num * Len(TableIn.rows) - 20000 * expected
                          <= Len(TableIn.rows)
                    /\ 20000 * expected - 2 * o.percentage.num * Len(TableIn.rows)
                          <= Len(TableIn.rows)
                    /\ TableIn.rows = TheExample => (o.count = 1 /\ o.percentage.num = 2000)

\* a column with a null value and one outlier among its other values
C9_Witness ==
    /\ Profiled
    /\ resp.analysis.columns[1].numeric
    /\ resp.analysis.columns[1].null_count > 0
    /\ resp.analysis.columns[1].outliers.count = 1
    /\ resp.analysis.columns[1].non_null_count = 4
    /\ resp.analysis.columns[1].outliers.percentage.num = 2000

\* C10: on a table without rows analyze_csv returns a profile, not an error, and
\* no percentage of it is NaN.
C10_NoRowsNoNaN ==
    (call.tool = "analyze" /\ pre[call.filepath].kind = "file"
        /\ Len(pre[call.filepath].rows) = 0)
    => /\ resp.status = "profile"
       /\ \A j \in 1..Len(resp.analysis.columns) :
             /\ ~resp.analysis.columns[j].null_percentage.nan
             /\ ~resp.analysis.columns[j].outliers.percentage.nan

StatisticNames == {"mean", "median", "std", "min", "max", "q25", "q75"}

\* C11: for every column without a non-null value, each of mean, median, std,
\* min, max, q25 and q75 that the profile reports is absent (null).
C11_NoValuesNoStatistics ==
    Profiled =>
        \A j \in 1..Len(TableIn.columns) :
            ValuesIn(j) = {} =>
                LET info == resp.analysis.columns[j]
                IN  IF info.numeric
                    THEN /\ DOMAIN info.statistics = StatisticNames
                         /\ \A name \in StatisticNames : info.statistics[name].absent
                    ELSE info.statistics = <<>>

\* a column of several rows, all of them null: a numeric column without values
C11_Witness ==
    /\ Profiled
    /\ Len(TableIn.rows) >= 2
    /\ ValuesIn(1) = {}
    /\ resp.analysis.columns[1].numeric
    /\ resp.analysis.columns[1].statistics.std.absent

\* C12: on a table of at least one row, duplicate_rows is the number of rows less
\* the number of distinct rows.
C12_DuplicatesAreRepeats ==
    (Profiled /\ Len(TableIn.rows) >= 1) =>
        resp.analysis.duplicate_rows
            = Len(TableIn.rows)
                - Cardinality({TableIn.rows[i] : i \in 1..Len(TableIn.rows)})

\* a row that occurs three times (two repeats) beside a row that occurs once
C12_Witness ==
    /\ Profiled
    /\ resp.analysis.duplicate_rows = 2
    /\ Cardinality({TableIn.rows[i] : i \in 1..Len(TableIn.rows)}) = 2
    /\ Len(TableIn.rows) = 4

----------------------------------------------------------------------------
(* Errors at the tool boundary *)

Invoked == call.tool # "none"

\* the keys of a response that hold a path argument
PathKeys == {"filepath", "categories_filepath", "filepath1", "filepath2", "output_path"}

\* the messages that quote the path they are about
QuotesPath(message) == message \in {"File not found", QueriesMessage, CategoriesMessage}

\* C13 as stated, in its weakest reading: every error response of analyze_csv,
\* categorize_by_product and merge_csvs has an error message and names a path,
\* under a key of its own or inside the message.
C13_ErrorsNamePaths ==
    (Invoked /\ resp.status = "error") =>
        /\ "error" \in resp.keys
        /\ resp.keys \cap PathKeys # {} \/ QuotesPath(resp.error)

\* C13: every invocation of analyze_csv, categorize_by_product and merge_csvs
\* returns a response, and every error response has an error message. The path
\* arguments are keys of it when analyze_csv or categorize_by_product caught an
\* exception (filepath; categories_filepath too for the categorizer) and, for
\* categories_filepath alone, when the categories file yields no keyword; no
\* other error response, and none of merge_csvs, has a path key.
C13_ErrorsAreResponses ==
    Invoked =>
        /\ resp.tool = call.tool
        /\ resp.status \in {"success", "profile", "error"}
        /\ resp.status = "error" =>
              /\ "error" \in resp.keys
              /\ resp.error # ""
              /\ resp.keys \cap PathKeys =
                    IF call.tool = "merge" THEN {}
                    ELSE IF resp.error = "exception"
                    THEN (IF call.tool = "analyze" THEN {"filepath"}
                          ELSE {"filepath", "categories_filepath"})
                    ELSE IF resp.error = NoKeywordsMessage THEN {"categories_filepath"}
                    ELSE {}

\* pd.merge raised on two readable tables without a common column, and the
\* response holds the error message alone
C13_Witness ==
    /\ call.tool = "merge"
    /\ pre[call.filepath].kind = "file"
    /\ pre[call.categories_filepath].kind = "file"
    /\ CommonColumns(ReadCsv(pre[call.filepath]), ReadCsv(pre[call.categories_filepath])) = <<>>
    /\ resp.status = "error"
    /\ resp.error = "exception"
    /\ resp.keys = {"error"}
    /\ fs = pre

----------------------------------------------------------------------------
(* The categorizer run twice, and the files it touches *)

\* C14: when categorize_by_product is invoked again with the arguments of the
\* invocation before it, it returns the same response, the statistics among it,
\* and leaves the same output file.
C14_SecondRunAgrees ==
    [][(Categorized /\ call' = call) =>
          /\ resp' = resp
          /\ fs'[OutputOf(call.filepath)] = fs[OutputOf(call.filepath)]]_vars

\* C15: an invocation of categorize_by_product leaves the file at filepath and
\* the file at categories_filepath as they were.
C15_InputsUntouched ==
    Categorized =>
        /\ fs[call.filepath] = pre[call.filepath]
        /\ fs[call.categories_filepath] = pre[call.categories_filepath]
====
